---- MODULE Spec2Model ----
(***************************************************************************)
(* Model of apps/web/src/server/api/routers/webhook.ts (webhookRouter).    *)
(*                                                                         *)
(* The store holds the `webhook` table (a sequence, a row's id being its   *)
(* index) and the `webhookCall` table.  Every tRPC handler is a callback   *)
(* that suspends at each `await` of a store call, so a handler with a      *)
(* read followed by a write is two steps and handlers of different         *)
(* requests interleave between them.                                       *)
(***************************************************************************)
EXTENDS Naturals, Integers, Sequences, FiniteSets, TLC

VARIABLES
    teamRow,        \* team id -> [isActive, plan]: ctx.team of a request of that team
    cap,            \* the number of rows the webhook table is explored up to
    callers,        \* the teams whose members send requests
    webhooks,       \* the webhook table: Seq of rows, id = index
    pc,             \* per request slot: "idle" | "create" | "update" | "setStatus"
    ctxTeam,        \* per request slot: ctx.team.id of the request in progress
    input,          \* per request slot: the validated input of the request in progress
    local,          \* per request slot: the handler's local (`webhook` row read)
    generated,      \* number of secrets WebhookService.generateSecret() has produced
    applied,        \* per webhook: failure increments applied since the last reset
    last,           \* the step just taken: [op, team, id, status, outcome, prior]
    calls,          \* the webhookCall table: call id -> row
    query,          \* the listCalls input being paged through: filters, limit, cursor
    visited,        \* ids returned so far by the pages of the current walk
    page            \* the last query result: [op, team, items, nextCursor, found, id]

vars == <<teamRow, cap, callers, webhooks, pc, ctxTeam, input, local, generated, applied, last,
          calls, query, visited, page>>

routerVars == <<teamRow, cap, callers, webhooks, pc, ctxTeam, input, local, generated, applied, last>>
callVars == <<calls, query, visited, page>>

-----------------------------------------------------------------------------
(* Bounds of the model *)

NumProcs == 2
MaxWebhooks == 2
MaxCreated == 4
MaxFailures == 1
MaxGenerated == 2
NumCalls == 3
MaxCreatedAt == 2
MaxPages == 4

(* Program constants *)

PLAN_WEBHOOK_LIMIT_FREE == 1
PLAN_WEBHOOK_LIMIT_PAID == 3
MIN_LIMIT == 1
MAX_LIMIT == 50
DEFAULT_LIMIT == 20

-----------------------------------------------------------------------------
(* Value domains *)

Procs == 1..NumProcs
Teams == {1, 2}
Plans == {"FREE", "BASIC"}
WebhookStatus == {"ACTIVE", "PAUSED", "DISABLED", "DELETED"}
WebhookCallStatus == {"PENDING", "SUCCESS", "FAILED"}

\* An optional input field is the empty set when omitted and {v} when supplied.
None == {}
Some(v) == {v}
\* JavaScript's `opt ?? dflt`
Coalesce(opt, dflt) == IF opt = None THEN dflt ELSE CHOOSE v \in opt : TRUE

Null == "null"
NoId == 0
NoRow == [teamId |-> 0, url |-> "", description |-> Null, eventTypes |-> {},
          secret |-> <<"none", 0>>, status |-> "NONE", consecutiveFailures |-> 0]
NoInput == [kind |-> "none"]
NoStep == [op |-> "init", team |-> 0, id |-> NoId, status |-> "NONE", outcome |-> "NONE",
           prior |-> <<>>]

\* a handler suspended at the await of its write
Awaiting == [NoStep EXCEPT !.op = "await"]

Step(op, t, id, st, out) ==
    [op |-> op, team |-> t, id |-> id, status |-> st, outcome |-> out, prior |-> <<>>]

-----------------------------------------------------------------------------
(* Input domains: what zod lets through to the handlers *)

TeamRows == [isActive : BOOLEAN, plan : Plans]
IdInputs == 1..MaxWebhooks
SuppliedSecret == <<"given", 1>>
UrlA == "https://a.example/hook"
UrlB == "https://b.example/hook"

\* create: url, description?, eventTypes (min 1), secret?
CreateInputs ==
    [url : {UrlA}, description : {None}, eventTypes : {{"email.sent"}},
     secret : {None, Some(SuppliedSecret)}]
CoreCreateInputs == {in \in CreateInputs : in.secret # None}

\* update: id, url?, description? (nullable), eventTypes?, rotateSecret?, secret?
CoreUpdateInputs ==
    [id : IdInputs, url : {Some(UrlB)}, description : {None},
     eventTypes : {None}, rotateSecret : {None}, secret : {None}]

\* every shape of update's input: each optional field omitted or supplied, the
\* description also as an explicit null, rotateSecret also as false
OtherSecret == <<"given", 2>>
EventsB == {"email.bounced"}
UpdateInputs ==
    [id : IdInputs, url : {None, Some(UrlB)},
     description : {None, Some(Null), Some("text")},
     eventTypes : {None, Some(EventsB)},
     rotateSecret : {None, Some(FALSE), Some(TRUE)},
     secret : {None, Some(OtherSecret)}]

\* the inputs of update that target the first subscription and supply at most one
\* of: url, description, eventTypes, the secret (rotateSecret and secret in every
\* combination)
GroupsGiven(in) ==
    Cardinality({f \in {"url", "description", "eventTypes"} : in[f] # None})
        + (IF in.rotateSecret # None \/ in.secret # None THEN 1 ELSE 0)
SingleUpdateInputs == {in \in UpdateInputs : GroupsGiven(in) <= 1 /\ in.id = 1}

\* ctx.team of the two teams: a free team and a paid one
CoreTeams ==
    (1 :> [isActive |-> TRUE, plan |-> "FREE"]) @@
    (2 :> [isActive |-> TRUE, plan |-> "BASIC"])

\* setStatus: id and a member of the WebhookStatus enum, before the refinement
SetStatusInputs == [id : IdInputs, status : WebhookStatus]

-----------------------------------------------------------------------------
(* Helpers of the router *)

getWebhookLimit(team) ==
    LET isPaid == team.isActive /\ team.plan # "FREE"
    IN  IF isPaid THEN PLAN_WEBHOOK_LIMIT_PAID ELSE PLAN_WEBHOOK_LIMIT_FREE

\* a count that leaves out the status filter
CountWebhooksAll(teamId) ==
    Cardinality({i \in DOMAIN webhooks : webhooks[i].teamId = teamId})

\* db.webhook.count({where: {teamId, status: {not: DELETED}}})
CountWebhooks(teamId) ==
    Cardinality({i \in DOMAIN webhooks :
                    webhooks[i].teamId = teamId /\ webhooks[i].status # "DELETED"})

\* a findFirst that leaves out the teamId filter
FindFirstWebhookAnyTeam(id, teamId) ==
    IF id \in DOMAIN webhooks THEN Some([id |-> id, row |-> webhooks[id]]) ELSE None

\* db.webhook.findFirst({where: {id, teamId}}): None, or Some row with its id
FindFirstWebhook(id, teamId) ==
    IF id \in DOMAIN webhooks /\ webhooks[id].teamId = teamId
    THEN Some([id |-> id, row |-> webhooks[id]])
    ELSE None

\* The part of the row read that a handler still uses after its findFirst: update
\* reads url, description, eventTypes and secret of it, setStatus consecutiveFailures.
\* The fields it never reads again are left out of its local.
Held(op, f) ==
    [id |-> f.id,
     row |-> IF op = "update"
             THEN [NoRow EXCEPT !.url = f.row.url, !.description = f.row.description,
                                !.eventTypes = f.row.eventTypes, !.secret = f.row.secret]
             ELSE [NoRow EXCEPT !.consecutiveFailures = f.row.consecutiveFailures]]

\* `!webhook || webhook.status === WebhookStatus.DELETED`
IsMissing(found) ==
    found = None \/ (CHOOSE f \in found : TRUE).row.status = "DELETED"

\* an input schema without the refinement
StatusInputAny(s) == s \in WebhookStatus

\* the refinement of setStatus's input: (s) => s !== WebhookStatus.DELETED
StatusInputValid(s) == s # "DELETED"

\* WebhookService.generateSecret(): the n-th token produced, unequal to all others
generateSecret(n) == <<"gen", n>>

\* a setStatus that never resets the counter
SetStatusDataKeep(stored, in, webhook) ==
    [stored EXCEPT !.status = in.status,
                   !.consecutiveFailures = webhook.consecutiveFailures]

\* the `data` of setStatus's db.webhook.update, applied to the stored row
SetStatusData(stored, in, webhook) ==
    [stored EXCEPT
        !.status = in.status,
        !.consecutiveFailures =
            IF in.status = "ACTIVE" THEN 0 ELSE webhook.consecutiveFailures]

\* the `data` of update's db.webhook.update, applied to the stored row
UpdateData(stored, in, webhook, secret) ==
    [stored EXCEPT
        !.url = Coalesce(in.url, webhook.url),
        !.description =
            IF in.description = None THEN webhook.description
            ELSE Coalesce(in.description, Null),
        !.eventTypes = Coalesce(in.eventTypes, webhook.eventTypes),
        !.secret = Coalesce(secret, webhook.secret)]

\* the row db.webhook.create inserts
CreateRow(teamId, in, secret) ==
    [teamId |-> teamId, url |-> in.url,
     description |-> Coalesce(in.description, Null),
     eventTypes |-> in.eventTypes, secret |-> secret,
     status |-> "ACTIVE", consecutiveFailures |-> 0]

\* Requests in progress that will still insert a row / draw a fresh secret
PendingInserts == Cardinality({q \in Procs : pc[q] = "create"})
PendingSecrets ==
    Cardinality({q \in Procs :
        \/ pc[q] = "create" /\ input[q].secret = None
        \/ pc[q] = "update" /\ input[q].rotateSecret = Some(TRUE)})

-----------------------------------------------------------------------------
(* create: count, then insert *)

CreateCount(p, t, in) ==
    /\ pc[p] = "idle"
    /\ LET limit == getWebhookLimit(teamRow[t])
           count == CountWebhooks(t)
       IN  IF count >= limit
           THEN /\ last' = Step("create", t, NoId, "NONE", "FORBIDDEN")
                /\ UNCHANGED <<pc, ctxTeam, input>>
           ELSE /\ Len(webhooks) + PendingInserts < cap
                /\ in.secret = None => generated + PendingSecrets < MaxGenerated
                /\ pc' = [pc EXCEPT ![p] = "create"]
                /\ ctxTeam' = [ctxTeam EXCEPT ![p] = t]
                /\ input' = [input EXCEPT ![p] = in]
                /\ last' = Awaiting
    /\ UNCHANGED <<teamRow, cap, callers, webhooks, local, generated, applied>>
    /\ UNCHANGED callVars

CreateInsert(p) ==
    /\ pc[p] = "create"
    /\ LET in == input[p]
           fresh == in.secret = None
           secret == Coalesce(in.secret, generateSecret(generated + 1))
       IN  /\ webhooks' = Append(webhooks, CreateRow(ctxTeam[p], in, secret))
           /\ generated' = IF fresh THEN generated + 1 ELSE generated
           /\ last' = Step("create", ctxTeam[p], Len(webhooks) + 1, "ACTIVE", "OK")
    /\ applied' = Append(applied, 0)
    /\ pc' = [pc EXCEPT ![p] = "idle"]
    /\ ctxTeam' = [ctxTeam EXCEPT ![p] = 0]
    /\ input' = [input EXCEPT ![p] = NoInput]
    /\ UNCHANGED <<teamRow, cap, callers, local>>
    /\ UNCHANGED callVars

-----------------------------------------------------------------------------
(* update: findFirst, then update *)

UpdateFind(p, t, in) ==
    /\ pc[p] = "idle"
    /\ LET found == FindFirstWebhook(in.id, t)
       IN  IF IsMissing(found)
           THEN /\ last' = Step("update", t, in.id, "NONE", "NOT_FOUND")
                /\ UNCHANGED <<pc, ctxTeam, input, local>>
           ELSE /\ in.rotateSecret = Some(TRUE) =>
                        generated + PendingSecrets < MaxGenerated
                /\ pc' = [pc EXCEPT ![p] = "update"]
                /\ ctxTeam' = [ctxTeam EXCEPT ![p] = t]
                /\ input' = [input EXCEPT ![p] = in]
                /\ local' = [local EXCEPT ![p] = Held("update", CHOOSE f \in found : TRUE)]
                /\ last' = Awaiting
    /\ UNCHANGED <<teamRow, cap, callers, webhooks, generated, applied>>
    /\ UNCHANGED callVars

UpdateWrite(p) ==
    /\ pc[p] = "update"
    /\ LET in == input[p]
           webhook == local[p]
           rotate == in.rotateSecret = Some(TRUE)
           secret == IF rotate THEN Some(generateSecret(generated + 1)) ELSE in.secret
       IN  /\ webhooks' = [webhooks EXCEPT ![webhook.id] =
                              UpdateData(@, in, webhook.row, secret)]
           /\ generated' = IF rotate THEN generated + 1 ELSE generated
           /\ last' = Step("update", ctxTeam[p], webhook.id, "NONE", "OK")
    /\ pc' = [pc EXCEPT ![p] = "idle"]
    /\ ctxTeam' = [ctxTeam EXCEPT ![p] = 0]
    /\ input' = [input EXCEPT ![p] = NoInput]
    /\ local' = [local EXCEPT ![p] = [id |-> NoId, row |-> NoRow]]
    /\ UNCHANGED <<teamRow, cap, callers, applied>>
    /\ UNCHANGED callVars

-----------------------------------------------------------------------------
(* setStatus: input refinement, findFirst, then update *)

SetStatusRejected(p, t, in) ==
    /\ pc[p] = "idle"
    /\ ~StatusInputValid(in.status)
    /\ last' = Step("setStatus", 0, in.id, in.status, "BAD_REQUEST")
    /\ UNCHANGED <<teamRow, cap, callers, webhooks, pc, ctxTeam, input, local, generated, applied>>
    /\ UNCHANGED callVars

SetStatusFind(p, t, in) ==
    /\ pc[p] = "idle"
    /\ StatusInputValid(in.status)
    /\ LET found == FindFirstWebhook(in.id, t)
       IN  IF IsMissing(found)
           THEN /\ last' = Step("setStatus", t, in.id, "NONE", "NOT_FOUND")
                /\ UNCHANGED <<pc, ctxTeam, input, local>>
           ELSE /\ pc' = [pc EXCEPT ![p] = "setStatus"]
                /\ ctxTeam' = [ctxTeam EXCEPT ![p] = t]
                /\ input' = [input EXCEPT ![p] = in]
                /\ local' = [local EXCEPT ![p] = Held("setStatus", CHOOSE f \in found : TRUE)]
                /\ last' = Awaiting
    /\ UNCHANGED <<teamRow, cap, callers, webhooks, generated, applied>>
    /\ UNCHANGED callVars

SetStatusWrite(p) ==
    /\ pc[p] = "setStatus"
    /\ LET in == input[p]
           webhook == local[p]
       IN  /\ webhooks' = [webhooks EXCEPT ![webhook.id] =
                              SetStatusData(@, in, webhook.row)]
           /\ applied' = [applied EXCEPT ![webhook.id] =
                              IF in.status = "ACTIVE" THEN 0 ELSE @]
           /\ last' = [Step("setStatus", ctxTeam[p], webhook.id, in.status, "OK")
                         EXCEPT !.prior = <<webhooks[webhook.id].status,
                                            webhooks[webhook.id].consecutiveFailures>>]
    /\ pc' = [pc EXCEPT ![p] = "idle"]
    /\ ctxTeam' = [ctxTeam EXCEPT ![p] = 0]
    /\ input' = [input EXCEPT ![p] = NoInput]
    /\ local' = [local EXCEPT ![p] = [id |-> NoId, row |-> NoRow]]
    /\ UNCHANGED <<teamRow, cap, callers, generated>>
    /\ UNCHANGED callVars

-----------------------------------------------------------------------------
(* The collaborators of the router: the dispatcher's outcome steps and the  *)
(* separate delete operation (spec 4.2, 4.4)                                *)

DispatchFailure(w) ==
    /\ w \in DOMAIN webhooks
    /\ webhooks[w].status # "DELETED"
    /\ webhooks[w].consecutiveFailures < MaxFailures
    /\ applied[w] < MaxFailures
    /\ webhooks' = [webhooks EXCEPT ![w] = [@ EXCEPT !.consecutiveFailures = @ + 1]]
    /\ applied' = [applied EXCEPT ![w] = @ + 1]
    /\ last' = Step("dispatchFailure", webhooks[w].teamId, w, "NONE", "OK")
    /\ UNCHANGED <<teamRow, cap, callers, pc, ctxTeam, input, local, generated>>
    /\ UNCHANGED callVars

DispatchSuccess(w) ==
    /\ w \in DOMAIN webhooks
    /\ webhooks[w].status # "DELETED"
    /\ webhooks' = [webhooks EXCEPT ![w] = [@ EXCEPT !.consecutiveFailures = 0]]
    /\ applied' = [applied EXCEPT ![w] = 0]
    /\ last' = Step("dispatchSuccess", webhooks[w].teamId, w, "NONE", "OK")
    /\ UNCHANGED <<teamRow, cap, callers, pc, ctxTeam, input, local, generated>>
    /\ UNCHANGED callVars

DeleteWebhook(w) ==
    /\ w \in DOMAIN webhooks
    /\ webhooks[w].status # "DELETED"
    /\ webhooks' = [webhooks EXCEPT ![w] = [@ EXCEPT !.status = "DELETED"]]
    /\ last' = Step("delete", webhooks[w].teamId, w, "DELETED", "OK")
    /\ UNCHANGED <<teamRow, cap, callers, pc, ctxTeam, input, local, generated, applied>>
    /\ UNCHANGED callVars

-----------------------------------------------------------------------------
(* The router under concurrent requests, with its collaborators *)

NoCalls == <<>>
NoQuery == [team |-> 0, webhookId |-> None, status |-> None, limit |-> None,
            cursor |-> None, walk |-> FALSE, pages |-> 0]
NoPage == [op |-> "none", team |-> 0, id |-> NoId, items |-> <<>>,
           nextCursor |-> None, found |-> None, outcome |-> "NONE"]

InitWith(rows, n, ts) ==
    /\ teamRow \in rows
    /\ cap = n
    /\ callers = ts
    /\ webhooks = <<>>
    /\ pc = [p \in Procs |-> "idle"]
    /\ ctxTeam = [p \in Procs |-> 0]
    /\ input = [p \in Procs |-> NoInput]
    /\ local = [p \in Procs |-> [id |-> NoId, row |-> NoRow]]
    /\ generated = 0
    /\ applied = <<>>
    /\ last = NoStep
    /\ calls = NoCalls
    /\ query = NoQuery
    /\ visited = <<>>
    /\ page = NoPage

Init == InitWith({CoreTeams}, MaxWebhooks, Teams)

\* Request slots are interchangeable: a new request takes the lowest idle one.
Free(p) == pc[p] = "idle" /\ \A q \in Procs : q < p => pc[q] # "idle"

Create ==
    \E p \in Procs, t \in callers, in \in CoreCreateInputs : Free(p) /\ CreateCount(p, t, in)
CreateFinish == \E p \in Procs : CreateInsert(p)
Update ==
    \E p \in Procs, t \in callers, in \in CoreUpdateInputs : Free(p) /\ UpdateFind(p, t, in)
UpdateFinish == \E p \in Procs : UpdateWrite(p)
SetStatusInvalid ==
    \E p \in Procs, t \in callers, in \in SetStatusInputs :
        Free(p) /\ SetStatusRejected(p, t, in)
SetStatus ==
    \E p \in Procs, t \in callers, in \in SetStatusInputs : Free(p) /\ SetStatusFind(p, t, in)
SetStatusFinish == \E p \in Procs : SetStatusWrite(p)
Failure == \E w \in IdInputs : DispatchFailure(w)
Success == \E w \in IdInputs : DispatchSuccess(w)
Delete == \E w \in 1..cap : DeleteWebhook(w)

RouterNext ==
    \/ Create
    \/ CreateFinish
    \/ Update
    \/ UpdateFinish
    \/ SetStatusInvalid
    \/ SetStatus
    \/ SetStatusFinish

(* The router under concurrent requests of both teams, with the delete operation *)
Next ==
    \/ RouterNext
    \/ Delete

Spec == Init /\ [][Next]_vars

(* The router alone: no delete operation and no dispatcher *)
SpecRouter == Init /\ [][RouterNext]_vars

(* The router under concurrent requests of the paid team, with the dispatcher's *)
(* outcome steps and the delete operation                                      *)
InitDispatch == InitWith({CoreTeams}, MaxWebhooks, {2})
NextDispatch ==
    \/ RouterNext
    \/ Failure
    \/ Success
    \/ Delete

SpecDispatch == InitDispatch /\ [][NextDispatch]_vars

(* Failure increments racing with setStatus to PAUSED or DISABLED: no SUCCESS *)
(* outcome and no setStatus to ACTIVE                                         *)
SetStatusHold ==
    \E p \in Procs, t \in callers, in \in SetStatusInputs :
        /\ in.status \in {"PAUSED", "DISABLED"}
        /\ Free(p)
        /\ SetStatusFind(p, t, in)
NextLost ==
    \/ Create
    \/ CreateFinish
    \/ SetStatusHold
    \/ SetStatusFinish
    \/ Failure
SpecLost == Init /\ [][NextLost]_vars

(* create and delete alone, for every plan of the two teams and both kinds *)
(* of secret, on a table large enough for a paid team to pass its limit    *)
InitCreate == InitWith([Teams -> TeamRows], MaxCreated, Teams)
CreateAny ==
    \E p \in Procs, t \in callers, in \in CreateInputs : Free(p) /\ CreateCount(p, t, in)
NextCreate ==
    \/ CreateAny
    \/ CreateFinish
    \/ Delete
SpecCreate == InitCreate /\ [][NextCreate]_vars

(* create and concurrent updates of the paid team's first subscription, beside *)
(* a second one that no update targets                                       *)
UpdateAny ==
    \E p \in Procs, t \in callers, in \in SingleUpdateInputs :
        Free(p) /\ UpdateFind(p, t, in)
NextUpdate ==
    \/ Create
    \/ CreateFinish
    \/ UpdateAny
    \/ UpdateFinish
SpecUpdate == InitDispatch /\ [][NextUpdate]_vars

-----------------------------------------------------------------------------
(* The read side: list, listCalls, getCall over a fixed store *)

\* The webhooks the call records belong to, and the team of each
CallWebhooks == 1..3
OwnerOf(w) == IF w = 3 THEN 2 ELSE 1
CallIds == 1..NumCalls
\* an id that names no call record, and the empty string
AbsentId == NumCalls + 1
EmptyId == 0

CallRows ==
    {[teamId |-> OwnerOf(w), webhookId |-> w, status |-> st, createdAt |-> at] :
        w \in CallWebhooks, st \in {"SUCCESS", "FAILED"}, at \in 1..MaxCreatedAt}

\* Call ids are opaque, so of the tables that differ only in which row carries which
\* id one is kept: the one whose rows are in rank order
Rank(r) ==
    (r.webhookId - 1) * 2 * MaxCreatedAt
        + (IF r.status = "FAILED" THEN MaxCreatedAt ELSE 0) + r.createdAt
CallTables ==
    {ct \in [CallIds -> CallRows] :
        \A i, j \in CallIds : i < j => Rank(ct[i]) <= Rank(ct[j])}

\* listCalls: webhookId?, status?, limit (1..50, default 20), cursor?
ListCallsInputs ==
    [webhookId : {None} \cup {Some(w) : w \in CallWebhooks},
     status : {None, Some("FAILED")},
     limit : {None, Some(0), Some(1), Some(2)},
     cursor : {None, Some(EmptyId), Some(AbsentId)} \cup {Some(c) : c \in CallIds}]

\* z.number().min(1).max(50).default(20)
LimitValid(l) == l = None \/ \A n \in l : MIN_LIMIT <= n /\ n <= MAX_LIMIT
LimitOf(l) == Coalesce(l, DEFAULT_LIMIT)

\* `input.cursor ? {id: input.cursor} : undefined`: the empty string is no cursor
CursorGiven(c) == c # None /\ c # Some(EmptyId)

\* a where clause that leaves out the teamId filter
MatchingAnyTeam(t, in) ==
    {c \in DOMAIN calls :
        /\ in.webhookId = None \/ calls[c].webhookId \in in.webhookId
        /\ in.status = None \/ calls[c].status \in in.status}

\* where: {teamId, webhookId, status}; an undefined filter is no filter
Matching(t, in) ==
    {c \in DOMAIN calls :
        /\ calls[c].teamId = t
        /\ in.webhookId = None \/ calls[c].webhookId \in in.webhookId
        /\ in.status = None \/ calls[c].status \in in.status}

\* orderBy: {createdAt: "desc"}: every order of the rows S with createdAt not
\* increasing; the order of rows of equal createdAt is the database's choice
Orderings(S) ==
    {o \in [1..Cardinality(S) -> S] :
        /\ \A i, j \in DOMAIN o : i # j => o[i] # o[j]
        /\ \A i, j \in DOMAIN o : i < j => calls[o[i]].createdAt >= calls[o[j]].createdAt}

Take(o, n) == SubSeq(o, 1, IF Len(o) < n THEN Len(o) ELSE n)

\* the rows of o from the cursor row on
FromCursor(o, c) ==
    LET at == CHOOSE i \in DOMAIN o : o[i] = c
    IN  SubSeq(o, at, Len(o))

\* db.webhookCall.findMany({where, orderBy, take: limit + 1, cursor}): the results
\* the query can give.  With a cursor the rows are those ordered at or after the
\* cursor row, starting at it; a cursor that names no row gives no rows, and one
\* that names a row outside the where clause gives either no rows or the rows
\* ordered at or after it.
FindManyCalls(t, in) ==
    LET take == LimitOf(in.limit) + 1
        c == CHOOSE x \in in.cursor : TRUE
        after == {m \in Matching(t, in) : calls[m].createdAt <= calls[c].createdAt}
    IN  IF ~CursorGiven(in.cursor)
        THEN {Take(o, take) : o \in Orderings(Matching(t, in))}
        ELSE IF c \notin DOMAIN calls
        THEN {<<>>}
        ELSE IF c \in Matching(t, in)
        THEN {Take(FromCursor(o, c), take) : o \in Orderings(after)}
        ELSE {<<>>} \cup {Take(o, take) : o \in Orderings(after)}

\* the handler's result from the rows read: pop the extra row as nextCursor
ListCallsResult(t, in, rows) ==
    LET limit == LimitOf(in.limit)
        more == Len(rows) > limit
    IN  [op |-> "listCalls", team |-> t, id |-> NoId,
         items |-> IF more THEN SubSeq(rows, 1, Len(rows) - 1) ELSE rows,
         nextCursor |-> IF more THEN Some(rows[Len(rows)]) ELSE None,
         found |-> None, outcome |-> "OK"]

\* db.webhookCall.findFirst({where: {id, teamId}})
FindFirstCall(id, t) ==
    IF id \in DOMAIN calls /\ calls[id].teamId = t THEN Some(id) ELSE None

\* db.webhook.findMany({where: {teamId, status: {not: DELETED}}, orderBy: createdAt desc});
\* rows are inserted in id order, so the newest row has the largest id
RECURSIVE ListWebhooks(_, _)
ListWebhooks(t, n) ==
    IF n = 0 THEN <<>>
    ELSE IF webhooks[n].teamId = t /\ webhooks[n].status # "DELETED"
         THEN <<n>> \o ListWebhooks(t, n - 1)
         ELSE ListWebhooks(t, n - 1)

List(t) ==
    /\ page = NoPage
    /\ page' = [NoPage EXCEPT !.op = "list", !.team = t, !.outcome = "OK",
                              !.items = ListWebhooks(t, Len(webhooks))]
    /\ UNCHANGED <<calls, query, visited>>
    /\ UNCHANGED routerVars

GetCall(t, id) ==
    /\ page = NoPage
    /\ LET call == FindFirstCall(id, t)
       IN  page' = [NoPage EXCEPT !.op = "getCall", !.team = t, !.id = id,
                                  !.found = call,
                                  !.outcome = IF call = None THEN "NOT_FOUND" ELSE "OK"]
    /\ UNCHANGED <<calls, query, visited>>
    /\ UNCHANGED routerVars

ListCallsRejected(t, in) ==
    /\ page = NoPage
    /\ ~LimitValid(in.limit)
    /\ page' = [NoPage EXCEPT !.op = "listCalls", !.team = t, !.outcome = "BAD_REQUEST"]
    /\ UNCHANGED <<calls, query, visited>>
    /\ UNCHANGED routerVars

\* a listCalls request; without a cursor it starts a walk through the pages
ListCalls(t, in) ==
    /\ page = NoPage
    /\ LimitValid(in.limit)
    /\ \E rows \in FindManyCalls(t, in) : page' = ListCallsResult(t, in, rows)
    /\ query' = [team |-> t, webhookId |-> in.webhookId, status |-> in.status,
                 limit |-> in.limit, cursor |-> in.cursor,
                 walk |-> ~CursorGiven(in.cursor), pages |-> 1]
    /\ visited' = IF CursorGiven(in.cursor) THEN <<>> ELSE page'.items
    /\ UNCHANGED calls
    /\ UNCHANGED routerVars

\* the next listCalls request of the walk: same filters, cursor = the nextCursor returned
ListCallsNext ==
    /\ page.op = "listCalls"
    /\ query.walk
    /\ page.nextCursor # None
    /\ query.pages < MaxPages
    /\ LET in == [webhookId |-> query.webhookId, status |-> query.status,
                  limit |-> query.limit, cursor |-> page.nextCursor]
       IN  /\ \E rows \in FindManyCalls(query.team, in) :
                  page' = ListCallsResult(query.team, in, rows)
           /\ query' = [query EXCEPT !.cursor = in.cursor, !.pages = @ + 1]
    /\ visited' = visited \o page'.items
    /\ UNCHANGED calls
    /\ UNCHANGED routerVars

\* the webhook table with the given status in each row
WebhookTable(st) ==
    [w \in CallWebhooks |->
        [CreateRow(OwnerOf(w), CHOOSE in \in CoreCreateInputs : TRUE, SuppliedSecret)
            EXCEPT !.status = st[w]]]

\* Reads change nothing, so the two tables are varied one at a time: every call
\* table beside webhooks that are all ACTIVE, and every status of every webhook
\* beside one call table
InitCalls ==
    /\ teamRow = CoreTeams
    /\ cap = Cardinality(CallWebhooks)
    /\ callers = Teams
    /\ \/ /\ calls \in CallTables
          /\ webhooks = WebhookTable([w \in CallWebhooks |-> "ACTIVE"])
       \/ /\ calls = [c \in CallIds |-> CHOOSE r \in CallRows : Rank(r) = 1]
          /\ webhooks \in {WebhookTable(st) : st \in [CallWebhooks -> WebhookStatus]}
    /\ pc = [p \in Procs |-> "idle"]
    /\ ctxTeam = [p \in Procs |-> 0]
    /\ input = [p \in Procs |-> NoInput]
    /\ local = [p \in Procs |-> [id |-> NoId, row |-> NoRow]]
    /\ generated = 0
    /\ applied = [w \in CallWebhooks |-> 0]
    /\ last = NoStep
    /\ query = NoQuery
    /\ visited = <<>>
    /\ page = NoPage

ListAll == \E t \in Teams : List(t)
GetCallAny == \E t \in Teams, id \in CallIds \cup {AbsentId} : GetCall(t, id)
ListCallsInvalid == \E t \in Teams, in \in ListCallsInputs : ListCallsRejected(t, in)
ListCallsAny == \E t \in Teams, in \in ListCallsInputs : ListCalls(t, in)

NextCalls ==
    \/ ListAll
    \/ GetCallAny
    \/ ListCallsInvalid
    \/ ListCallsAny
    \/ ListCallsNext

SpecCalls == InitCalls /\ [][NextCalls]_vars

-----------------------------------------------------------------------------
(* Properties of the router *)

Live(t) == {i \in DOMAIN webhooks : webhooks[i].teamId = t /\ webhooks[i].status # "DELETED"}
PlanLimit(t) == IF teamRow[t].isActive /\ teamRow[t].plan # "FREE" THEN 3 ELSE 1
Starts(p, op) == pc[p] = "idle" /\ pc'[p] = op
Ends(p, op) == pc[p] = op /\ pc'[p] = "idle"

\* C1: once no create is between its count and its insert, no team holds more
\* non-DELETED subscriptions than its plan limit (1 free or inactive, 3 paid).
C1_LimitNeverExceeded ==
    (\A p \in Procs : pc[p] # "create") =>
        \A t \in Teams : Cardinality(Live(t)) <= PlanLimit(t)

\* C2: consecutiveFailures of a subscription gets smaller only in a SUCCESS
\* outcome step or in a setStatus to ACTIVE.
C2_CounterOnlyResets ==
    [][\A w \in DOMAIN webhooks :
          webhooks'[w].consecutiveFailures < webhooks[w].consecutiveFailures =>
              \/ last'.op = "dispatchSuccess" /\ last'.id = w
              \/ last'.op = "setStatus" /\ last'.status = "ACTIVE" /\ last'.id = w]_vars

\* C3: with failure increments racing setStatus to PAUSED or DISABLED and no reset,
\* once every setStatus has written, the counter is the number of increments applied.
C3_NoLostIncrement ==
    (\A p \in Procs : pc[p] # "setStatus") =>
        \A w \in DOMAIN webhooks : webhooks[w].consecutiveFailures = applied[w]

\* C4: the write of a setStatus to ACTIVE leaves its subscription ACTIVE with
\* consecutiveFailures 0 and every other field and subscription as it was; on a
\* subscription that is already ACTIVE with counter 0 it changes nothing.
C4_Reactivate ==
    [][(last'.op = "setStatus" /\ last'.outcome = "OK" /\ last'.status = "ACTIVE"
            /\ \E p \in Procs : Ends(p, "setStatus")) =>
          LET w == last'.id
          IN  /\ w \in DOMAIN webhooks
              /\ webhooks' = [webhooks EXCEPT ![w] =
                     [webhooks[w] EXCEPT !.status = "ACTIVE", !.consecutiveFailures = 0]]
              /\ (webhooks[w].status = "ACTIVE" /\ webhooks[w].consecutiveFailures = 0
                      => webhooks' = webhooks)]_vars

\* C4 witness: a PAUSED or DISABLED subscription with a counter above 0 was reactivated
C4_Witness ==
    /\ last.op = "setStatus" /\ last.outcome = "OK" /\ last.status = "ACTIVE"
    /\ last.prior \in {<<"PAUSED", 1>>, <<"DISABLED", 1>>}
    /\ webhooks[last.id].status = "ACTIVE"
    /\ webhooks[last.id].consecutiveFailures = 0

\* C5: create is refused (quota) exactly when the team's non-DELETED count has
\* reached the plan limit at its count, changing nothing; its insert adds one row,
\* ACTIVE, of the caller's team, with the supplied secret or else a fresh one.
C5_CreateContract ==
    [][/\ (last'.op = "create" /\ last'.outcome = "FORBIDDEN") =>
              /\ Cardinality(Live(last'.team)) >= PlanLimit(last'.team)
              /\ UNCHANGED <<webhooks, pc>>
       /\ \A p \in Procs :
              /\ Starts(p, "create") =>
                    /\ Cardinality(Live(ctxTeam'[p])) < PlanLimit(ctxTeam'[p])
                    /\ UNCHANGED webhooks
              /\ Ends(p, "create") =>
                    /\ Len(webhooks') = Len(webhooks) + 1
                    /\ SubSeq(webhooks', 1, Len(webhooks)) = webhooks
                    /\ LET row == webhooks'[Len(webhooks')]
                       IN  /\ row.status = "ACTIVE"
                           /\ row.teamId = ctxTeam[p]
                           /\ row.consecutiveFailures = 0
                           /\ IF input[p].secret # None
                              THEN row.secret \in input[p].secret
                              ELSE /\ row.secret[1] = "gen"
                                   /\ \A i \in DOMAIN webhooks :
                                          webhooks[i].secret # row.secret]_vars

\* C5 witness: a team at its limit created again, with a generated secret, after one
\* of its subscriptions became DELETED
C5_Witness ==
    /\ last.op = "create" /\ last.outcome = "OK"
    /\ Cardinality(Live(last.team)) = PlanLimit(last.team)
    /\ \E i \in DOMAIN webhooks :
           webhooks[i].teamId = last.team /\ webhooks[i].status = "DELETED"
    /\ webhooks[last.id].secret[1] = "gen"
    /\ \E i \in DOMAIN webhooks : i # last.id /\ webhooks[i].secret[1] = "gen"

\* the id names no row of team t that is not DELETED
Unknown(id, t) ==
    \/ id \notin DOMAIN webhooks
    \/ webhooks[id].teamId # t
    \/ webhooks[id].status = "DELETED"

\* C6: update and setStatus (with a status the input validation accepts) on an id
\* that is absent, of another team or DELETED end NOT_FOUND with the table, and
\* every request in progress, as they were; they go on to their write only otherwise.
C6_NotFound ==
    [][/\ (last'.op \in {"update", "setStatus"} /\ last'.outcome = "NOT_FOUND") =>
              /\ Unknown(last'.id, last'.team)
              /\ UNCHANGED <<webhooks, pc, local>>
       /\ \A p \in Procs :
              (Starts(p, "update") \/ Starts(p, "setStatus")) =>
                  /\ ~Unknown(input'[p].id, ctxTeam'[p])
                  /\ UNCHANGED webhooks]_vars

\* C6 witness: an update of a DELETED subscription of the caller's own team, and a
\* subscription of the other team in the table, ended NOT_FOUND
C6_Witness ==
    /\ last.op = "update" /\ last.outcome = "NOT_FOUND"
    /\ last.id \in DOMAIN webhooks
    /\ webhooks[last.id].teamId = last.team
    /\ webhooks[last.id].status = "DELETED"
    /\ \E i \in DOMAIN webhooks : webhooks[i].teamId # last.team

\* C7: setStatus to DELETED ends in a validation error without reading or writing
\* the table, and no request under way holds DELETED as its target; so create,
\* update and setStatus never leave a subscription DELETED.
C7_NoDeleteHere ==
    /\ [](/\ \A w \in DOMAIN webhooks : webhooks[w].status # "DELETED"
          /\ \A p \in Procs : pc[p] = "setStatus" => input[p].status # "DELETED"
          /\ (last.op = "setStatus" /\ last.status = "DELETED") =>
                 last.outcome = "BAD_REQUEST")
    /\ [][(last'.op = "setStatus" /\ last'.status = "DELETED") =>
              UNCHANGED <<webhooks, pc, input, local>>]_vars

\* C7 witness: setStatus to DELETED on an existing ACTIVE subscription was rejected
C7_Witness ==
    /\ last.op = "setStatus" /\ last.status = "DELETED" /\ last.outcome = "BAD_REQUEST"
    /\ last.id \in DOMAIN webhooks
    /\ webhooks[last.id].status = "ACTIVE"

\* C10: no update or setStatus step changes a subscription that is DELETED.
C10_DeletedIsTerminal ==
    [][\A w \in DOMAIN webhooks :
          (webhooks[w].status = "DELETED" /\ last'.op \in {"update", "setStatus"}) =>
              webhooks'[w] = webhooks[w]]_vars

\* C11: the write of an update changes no other subscription and, of the
\* targeted one, neither status, consecutiveFailures nor teamId; an omitted url,
\* eventTypes or secret keeps the value stored at the time of the write; an
\* omitted description is kept and an explicit null clears it; rotateSecret true
\* stores a fresh secret even when one is supplied, and otherwise a supplied
\* secret is stored as given.
C11_UpdateFrame ==
    [][\A p \in Procs :
          Ends(p, "update") =>
              LET in == input[p]
                  w == local[p].id
                  old == webhooks[w]
                  new == webhooks'[w]
                  rotate == in.rotateSecret = Some(TRUE)
              IN  /\ DOMAIN webhooks' = DOMAIN webhooks
                  /\ \A v \in DOMAIN webhooks \ {w} : webhooks'[v] = webhooks[v]
                  /\ new.status = old.status
                  /\ new.consecutiveFailures = old.consecutiveFailures
                  /\ new.teamId = old.teamId
                  /\ in.url = None => new.url = old.url
                  /\ in.eventTypes = None => new.eventTypes = old.eventTypes
                  /\ in.description = None => new.description = old.description
                  /\ in.description = Some(Null) => new.description = Null
                  /\ rotate =>
                        new.secret \notin
                            {webhooks[v].secret : v \in DOMAIN webhooks} \cup in.secret
                  /\ (~rotate /\ in.secret # None) => new.secret \in in.secret
                  /\ (~rotate /\ in.secret = None) => new.secret = old.secret]_vars

-----------------------------------------------------------------------------
(* Properties of the read side *)

Range(q) == {q[i] : i \in DOMAIN q}
NoRepeat(q) == \A i, j \in DOMAIN q : i # j => q[i] # q[j]
Descending(q) ==
    \A i, j \in DOMAIN q : i < j => calls[q[i]].createdAt >= calls[q[j]].createdAt
\* the call records the filters of the walk select
Selected ==
    {c \in DOMAIN calls :
        /\ calls[c].teamId = query.team
        /\ query.webhookId = None \/ calls[c].webhookId \in query.webhookId
        /\ query.status = None \/ calls[c].status \in query.status}

\* C8: in a walk from no cursor along the returned nextCursor, each page has at
\* most limit items, newest first; the pages so far hold no record twice and only
\* selected records, newest first; nextCursor is null exactly when every selected
\* record has been returned, and is otherwise a selected record not yet returned.
C8_Pagination ==
    (page.op = "listCalls" /\ page.outcome = "OK" /\ query.walk) =>
        /\ Len(page.items) <= LimitOf(query.limit)
        /\ Descending(page.items)
        /\ Descending(visited)
        /\ NoRepeat(visited)
        /\ Range(visited) \subseteq Selected
        /\ page.nextCursor = None <=> Range(visited) = Selected
        /\ page.nextCursor \subseteq Selected \ Range(visited)

\* C9: getCall answers with the record exactly when the id names a record of the
\* caller's team, and NOT_FOUND otherwise; listCalls returns, as items and as
\* nextCursor, only records of the caller's team; list returns only subscriptions
\* of the caller's team that are not DELETED.
C9_TeamIsolation ==
    /\ page.op = "getCall" =>
          /\ page.outcome = "OK" <=>
                 (page.id \in DOMAIN calls /\ calls[page.id].teamId = page.team)
          /\ page.outcome = "OK" => page.found = {page.id}
          /\ page.outcome # "OK" => page.outcome = "NOT_FOUND" /\ page.found = {}
    /\ page.op = "listCalls" =>
          /\ \A c \in Range(page.items) \cup page.nextCursor :
                 c \in DOMAIN calls /\ calls[c].teamId = page.team
    /\ page.op = "list" =>
          /\ \A w \in Range(page.items) :
                 /\ w \in DOMAIN webhooks
                 /\ webhooks[w].teamId = page.team
                 /\ webhooks[w].status # "DELETED"

\* C9 witness: listCalls, paging from a cursor that names a record of the other
\* team, returned records of the caller while the other team has records too
C9_Witness ==
    /\ page.op = "listCalls" /\ page.items # <<>>
    /\ \E c \in query.cursor : c \in DOMAIN calls /\ calls[c].teamId # page.team
    /\ \E c \in DOMAIN calls : calls[c].teamId # page.team /\ c \notin Range(page.items)

====
